---- MODULE Spec2Model ----
(***************************************************************************)
(* Model of src/comment-pr.ts of dependency-review-action: commentPr, the  *)
(* function that posts the review summary as one pull-request comment, and *)
(* findCommentByMarker, the paginated lookup of the comment it manages.    *)
(*                                                                         *)
(* A text is a sequence of words [w |-> spelling, n |-> length]; the       *)
(* length of a text is the sum of the lengths of its words, so that texts  *)
(* around MAX_COMMENT_LENGTH are small values.  The remote pull request is *)
(* the sequence of its comments in listing order.                          *)
(***************************************************************************)
EXTENDS Integers, Sequences, FiniteSets, TLC

\* ------------------------------------------------------------------ bounds
MaxComments == 3   \* comments the pull request holds at the start
PerPage     == 2   \* comments per listing page
MaxId       == 2   \* ids of the comments held at the start are 0..MaxId
MaxRuns     == 2   \* commentPr invocations of one process
MaxRetries  == 1   \* times the client sends a rejected page request again

\* --------------------------------------------------------------- constants
MAX_COMMENT_LENGTH == 65536
ExitCodeFailure    == 1

Procs == {1, 2}

None    == <<>>
Some(x) == <<x>>

Min(S) == CHOOSE x \in S : \A y \in S : x <= y

\* -------------------------------------------------------------------- text
Word(w, n) == [w |-> w, n |-> n]
Filler(n)  == <<Word("x*", n)>>

RECURSIVE StrLen(_)
StrLen(s) == IF s = <<>> THEN 0 ELSE Head(s).n + StrLen(Tail(s))

\* String.prototype.includes: sub occurs in s as a contiguous run.
Includes(s, sub) ==
  \E i \in 0..(Len(s) - Len(sub)) : SubSeq(s, i + 1, i + Len(sub)) = sub

COMMENT_MARKER ==
  << Word("<!--", 4), Word(" dependency-review-pr-comment-marker ", 37), Word("-->", 3) >>

\* the template literal `${content}\n\n${COMMENT_MARKER}`
WithMarker(content) == content \o <<Word("\n\n", 2)>> \o COMMENT_MARKER

\* commentBody.length >= MAX_COMMENT_LENGTH
TooBigOff(body) == StrLen(body) > MAX_COMMENT_LENGTH
TooBig(body) == StrLen(body) >= MAX_COMMENT_LENGTH

\* lines 45-52: the body that is submitted
ComposedBodyNoFallback(content, min) == WithMarker(content)
ComposedBody(content, min) ==
  IF TooBig(WithMarker(content)) THEN WithMarker(min) ELSE WithMarker(content)

\* ------------------------------------------------------------------ gating
\* lines 29-33: the condition whose negation returns early
PolicyAllowsNoFail(policy, code) == policy = "always" \/ policy = "on-failure"
PolicyAllows(policy, code) ==
  \/ policy = "always"
  \/ (policy = "on-failure" /\ code = ExitCodeFailure)

\* line 38: !github.context.payload.pull_request
NoPullRequestIgnored(pr) == FALSE
NoPullRequest(pr) == ~pr

\* ------------------------------------------------------------------ errors
\* what a rejected request can throw: a RequestError (an Error with a
\* status), another Error, or a value that is no Error at all
Errors ==
  { [kind |-> "RequestError", status |-> 403, message |-> "Resource not accessible by integration"],
    [kind |-> "RequestError", status |-> 500, message |-> "Internal Server Error"],
    [kind |-> "Error",        status |-> 403, message |-> "socket hang up"],
    [kind |-> "thrown",       status |-> 403, message |-> "not an Error"] }

IsRequestError(e) == e.kind = "RequestError"
IsError(e)        == e.kind \in {"RequestError", "Error"}

WARN_NO_PR     == <<"Not in the context of a pull request. Skipping comment creation.">>
WARN_FORBIDDEN == <<"Unable to write summary to pull-request. Make sure you are giving this workflow the permission 'pull-requests: write'.">>
WARN_FATAL     == <<"Unable to comment summary to pull-request: Unexpected fatal error">>
WarnMessage(e) == <<"Unable to comment summary to pull-request, received error: ", e.message>>

\* lines 73-87: the warning of the catch block
CatchWarningNoStatus(e) ==
  IF IsError(e) THEN WarnMessage(e) ELSE WARN_FATAL
CatchWarning(e) ==
  IF IsRequestError(e) /\ e.status = 403 THEN WARN_FORBIDDEN
  ELSE IF IsError(e) THEN WarnMessage(e)
  ELSE WARN_FATAL

\* ------------------------------------------------------------------ remote
\* comment.body?.includes(commentBodyIncludes)
BodyIncludes(comment, marker) ==
  IF comment.body = None THEN FALSE ELSE Includes(comment.body[1], marker)

\* comments.find(...): the first element of the page that matches
FindLast(comments, marker) ==
  LET idx == {i \in 1..Len(comments) : BodyIncludes(comments[i], marker)}
  IN  IF idx = {} THEN None ELSE Some(comments[CHOOSE i \in idx : \A j \in idx : j <= i])
Find(comments, marker) ==
  LET idx == {i \in 1..Len(comments) : BodyIncludes(comments[i], marker)}
  IN  IF idx = {} THEN None ELSE Some(comments[Min(idx)])

\* page k of the listing, and whether the response links to a next page
Page(coll, k) ==
  SubSeq(coll, (k - 1) * PerPage + 1, IF k * PerPage < Len(coll) THEN k * PerPage ELSE Len(coll))
HasNext(coll, k) == k * PerPage < Len(coll)

\* lines 105-112: where the loop goes after scanning a page: out with the
\* match, on to the next page, or out with undefined after the last page
AfterScanKeepsListing(existingComment, more) ==
  IF more THEN "list" ELSE "write"
AfterScanFirstPageOnly(existingComment, more) == "write"
AfterScanLoops(existingComment, more) ==
  IF existingComment # None THEN "write" ELSE "list"
AfterScanNoCreate(existingComment, more) ==
  IF existingComment # None THEN "write" ELSE IF more THEN "list" ELSE "done"
AfterScan(existingComment, more) ==
  IF existingComment # None THEN "write" ELSE IF more THEN "list" ELSE "write"

\* `if (existingCommentId)`: undefined and 0 are falsy
Truthy(opt) == opt # None /\ opt[1] # 0

Ids(coll) == {coll[i].id : i \in 1..Len(coll)}

\* the remote's update of comment id, and its creation of a comment
UpdatedDedup(coll, id, body) ==
  SelectSeq([i \in 1..Len(coll) |->
               IF coll[i].id = id THEN [coll[i] EXCEPT !.body = Some(body)] ELSE coll[i]],
            LAMBDA c : c.id = id \/ ~BodyIncludes(c, COMMENT_MARKER))
Updated(coll, id, body) ==
  [i \in 1..Len(coll) |-> IF coll[i].id = id THEN [coll[i] EXCEPT !.body = Some(body)] ELSE coll[i]]
CreatedUnlessMarked(coll, id, body) ==
  IF \E i \in 1..Len(coll) : BodyIncludes(coll[i], COMMENT_MARKER) THEN coll
  ELSE Append(coll, [id |-> id, body |-> Some(body)])
Created(coll, id, body) == Append(coll, [id |-> id, body |-> Some(body)])

\* ------------------------------------------------------------------ inputs
FitLength == MAX_COMMENT_LENGTH - StrLen(WithMarker(<<>>)) - 1

RenderedBodies == { Filler(FitLength), Filler(FitLength + 1) }
MinComments    == { <<Word("min", 3)>>, Filler(FitLength + 1) }
Policies       == {"always", "on-failure", "never"}
ExitCodes      == {0, 1}

InitBodies ==
  { None,
    Some(<<Word("<!--", 4), Word("LGTM", 4), Word("-->", 3)>>),
    Some(WithMarker(<<Word("old", 3)>>)) }

RECURSIVE Collections(_)
Collections(n) ==
  IF n = 0 THEN {<<>>}
  ELSE LET smaller == Collections(n - 1)
       IN  smaller \cup
           { Append(c, [id |-> i, body |-> b]) :
               c \in {d \in smaller : Len(d) = n - 1}, i \in 0..MaxId, b \in InitBodies }

InitialRemotes ==
  {c \in Collections(MaxComments) : \A i, j \in 1..Len(c) : i < j => c[i].id < c[j].id}

\* ------------------------------------------------------------------- state
VARIABLES
  remote,             \* the pull request's comments, in listing order
  pc,                 \* pc[p]: where invocation p stands
  runs,               \* runs[p]: invocations process p has started
  config,             \* config[p]: comment_summary_in_pr
  exitCode,           \* exitCode[p]: process.exitCode
  pull_request,       \* pull_request[p]: whether context.payload.pull_request is set
  commentContent,     \* commentContent[p]: summary.stringify()
  minComment,         \* minComment[p]
  commentBody,        \* commentBody[p]
  nextPage,           \* nextPage[p]: the page the iterator fetches next, 0 if none
  existingCommentId,  \* existingCommentId[p]: None or Some(id)
  error,              \* error[p]: the value caught, None if none
  output,             \* output[p]: values given to setOutput('comment-content')
  log,                \* log[p]: core.warning and core.debug lines
  calls,              \* calls[p]: requests sent to the remote
  outcome,            \* outcome[p]: "running", "returned" or "raised"
  before,             \* before[p]: the pull request's comments when p was called
  retried             \* retried[p]: pages whose request the client sent again

inputs == <<config, exitCode, pull_request, commentContent, minComment, before>>
vars == <<remote, pc, runs, config, exitCode, pull_request, commentContent, minComment,
          commentBody, nextPage, existingCommentId, error, output, log, calls, outcome, before,
          retried>>

Init ==
  /\ remote \in InitialRemotes
  /\ pc = [p \in Procs |-> "idle"]
  /\ runs = [p \in Procs |-> 0]
  /\ config = [p \in Procs |-> "never"]
  /\ exitCode = [p \in Procs |-> 0]
  /\ pull_request = [p \in Procs |-> FALSE]
  /\ commentContent = [p \in Procs |-> <<>>]
  /\ minComment = [p \in Procs |-> <<>>]
  /\ commentBody = [p \in Procs |-> <<>>]
  /\ nextPage = [p \in Procs |-> 0]
  /\ existingCommentId = [p \in Procs |-> None]
  /\ error = [p \in Procs |-> None]
  /\ output = [p \in Procs |-> <<>>]
  /\ log = [p \in Procs |-> <<>>]
  /\ calls = [p \in Procs |-> <<>>]
  /\ outcome = [p \in Procs |-> "returned"]
  /\ before = [p \in Procs |-> remote]
  /\ retried = [p \in Procs |-> <<>>]

Warning(text) == [level |-> "warning", text |-> text]
Debug(text)   == [level |-> "debug", text |-> text]

\* the place a throw at position at lands: the try block spans lines 54-71
InTryWriteOnly(at) == at = "write"
InTry(at) == at \in {"list", "write"}

\* ----------------------------------------------------------------- actions
\* commentPr is called; line 22: commentContent = summary.stringify()
Call(p) ==
  /\ pc[p] = "idle"
  /\ runs[p] < MaxRuns
  /\ \E policy \in Policies, code \in ExitCodes, pr \in BOOLEAN,
        content \in RenderedBodies, min \in MinComments :
       /\ config' = [config EXCEPT ![p] = policy]
       /\ exitCode' = [exitCode EXCEPT ![p] = code]
       /\ pull_request' = [pull_request EXCEPT ![p] = pr]
       /\ commentContent' = [commentContent EXCEPT ![p] = content]
       /\ minComment' = [minComment EXCEPT ![p] = min]
  /\ runs' = [runs EXCEPT ![p] = @ + 1]
  /\ pc' = [pc EXCEPT ![p] = "setOutput"]
  /\ commentBody' = [commentBody EXCEPT ![p] = <<>>]
  /\ nextPage' = [nextPage EXCEPT ![p] = 0]
  /\ existingCommentId' = [existingCommentId EXCEPT ![p] = None]
  /\ error' = [error EXCEPT ![p] = None]
  /\ output' = [output EXCEPT ![p] = <<>>]
  /\ log' = [log EXCEPT ![p] = <<>>]
  /\ calls' = [calls EXCEPT ![p] = <<>>]
  /\ outcome' = [outcome EXCEPT ![p] = "running"]
  /\ before' = [before EXCEPT ![p] = remote]
  /\ retried' = [retried EXCEPT ![p] = <<>>]
  /\ UNCHANGED remote

\* line 26: core.setOutput('comment-content', commentContent)
SetOutputNever(p) ==
  /\ pc[p] = "setOutput"
  /\ pc' = [pc EXCEPT ![p] = "policy"]
  /\ UNCHANGED <<remote, runs, inputs, retried, commentBody, nextPage, existingCommentId,
                 error, output, log, calls, outcome>>
SetOutputMin(p) ==
  /\ pc[p] = "setOutput"
  /\ output' = [output EXCEPT ![p] =
        Append(@, IF TooBig(WithMarker(commentContent[p])) THEN minComment[p] ELSE commentContent[p])]
  /\ pc' = [pc EXCEPT ![p] = "policy"]
  /\ UNCHANGED <<remote, runs, inputs, retried, commentBody, nextPage, existingCommentId,
                 error, log, calls, outcome>>
SetOutput(p) ==
  /\ pc[p] = "setOutput"
  /\ output' = [output EXCEPT ![p] = Append(@, commentContent[p])]
  /\ pc' = [pc EXCEPT ![p] = "policy"]
  /\ UNCHANGED <<remote, runs, inputs, retried, commentBody, nextPage, existingCommentId,
                 error, log, calls, outcome>>

\* lines 28-36: return silently unless the policy asks for a comment
PolicyCheck(p) ==
  /\ pc[p] = "policy"
  /\ IF PolicyAllows(config[p], exitCode[p])
       THEN /\ pc' = [pc EXCEPT ![p] = "context"]
            /\ UNCHANGED outcome
       ELSE /\ pc' = [pc EXCEPT ![p] = "done"]
            /\ outcome' = [outcome EXCEPT ![p] = "returned"]
  /\ UNCHANGED <<remote, runs, inputs, retried, commentBody, nextPage, existingCommentId,
                 error, output, log, calls>>

\* lines 38-43: warn and return when there is no pull request
ContextCheck(p) ==
  /\ pc[p] = "context"
  /\ IF NoPullRequest(pull_request[p])
       THEN /\ log' = [log EXCEPT ![p] = Append(@, Warning(WARN_NO_PR))]
            /\ pc' = [pc EXCEPT ![p] = "done"]
            /\ outcome' = [outcome EXCEPT ![p] = "returned"]
       ELSE /\ pc' = [pc EXCEPT ![p] = "compose"]
            /\ UNCHANGED <<log, outcome>>
  /\ UNCHANGED <<remote, runs, inputs, retried, commentBody, nextPage, existingCommentId,
                 error, output, calls>>

\* lines 45-52: the body, with the minimum comment when it is too long;
\* lines 94-103: findCommentByMarker builds the iterator
ComposeBody(p) ==
  /\ pc[p] = "compose"
  /\ commentBody' = [commentBody EXCEPT ![p] = ComposedBody(commentContent[p], minComment[p])]
  /\ log' = [log EXCEPT ![p] =
        IF TooBig(WithMarker(commentContent[p]))
          THEN Append(@, Debug(<<"The comment was too big for the GitHub API. Falling back on a minimum comment">>))
          ELSE @]
  /\ nextPage' = [nextPage EXCEPT ![p] = 1]
  /\ pc' = [pc EXCEPT ![p] = "list"]
  /\ UNCHANGED <<remote, runs, inputs, retried, existingCommentId, error, output, calls, outcome>>

\* a request throws e at position at: into the catch block when inside the
\* try block, out of commentPr otherwise
ThrowSwallowedInListing(p, e, at) ==
  IF at = "list"
    THEN /\ error' = [error EXCEPT ![p] = Some(e)]
         /\ pc' = [pc EXCEPT ![p] = "write"]
         /\ UNCHANGED outcome
    ELSE /\ error' = [error EXCEPT ![p] = Some(e)]
         /\ pc' = [pc EXCEPT ![p] = "catch"]
         /\ UNCHANGED outcome
Throw(p, e, at) ==
  IF InTry(at)
    THEN /\ error' = [error EXCEPT ![p] = Some(e)]
         /\ pc' = [pc EXCEPT ![p] = "catch"]
         /\ UNCHANGED outcome
    ELSE /\ error' = [error EXCEPT ![p] = Some(e)]
         /\ pc' = [pc EXCEPT ![p] = "done"]
         /\ outcome' = [outcome EXCEPT ![p] = "raised"]

\* lines 105-112: one turn of the for-await loop: the iterator fetches the
\* next page, the loop body scans it
ListPage(p) ==
  /\ pc[p] = "list"
  /\ nextPage[p] # 0
  /\ LET k        == nextPage[p]
         comments == Page(remote, k)
         existingComment == Find(comments, COMMENT_MARKER)
     IN  /\ calls' = [calls EXCEPT ![p] = Append(@, [op |-> "listComments", page |-> k, ok |-> TRUE])]
         /\ nextPage' = [nextPage EXCEPT ![p] = IF HasNext(remote, k) THEN k + 1 ELSE 0]
         /\ existingCommentId' = [existingCommentId EXCEPT ![p] =
               IF existingComment # None THEN Some(existingComment[1].id) ELSE None]
         /\ pc' = [pc EXCEPT ![p] = AfterScan(existingComment, HasNext(remote, k))]
         /\ outcome' = [outcome EXCEPT ![p] =
               IF AfterScan(existingComment, HasNext(remote, k)) = "done" THEN "returned" ELSE @]
  /\ UNCHANGED <<remote, runs, inputs, retried, commentBody, error, output, log>>

\* the page request is rejected
ListPageFails(p) ==
  /\ pc[p] = "list"
  /\ nextPage[p] # 0
  /\ \E e \in Errors :
       /\ calls' = [calls EXCEPT ![p] = Append(@, [op |-> "listComments", page |-> nextPage[p], ok |-> FALSE])]
       /\ Throw(p, e, "list")
  /\ UNCHANGED <<remote, runs, inputs, retried, commentBody, nextPage, existingCommentId, output, log>>

\* lines 8-11: the client is built with the retry plugin: a page request
\* rejected with a server error is sent again, MaxRetries times at most,
\* and findCommentByMarker sees nothing of it
Retryable(e) == IsRequestError(e) /\ e.status >= 500
Attempts(p) == Len(SelectSeq(retried[p], LAMBDA k : k = nextPage[p]))
ClientGivesUp(p, e) == ~Retryable(e) \/ Attempts(p) >= MaxRetries

ListPageRetrySkipsPage(p) ==
  /\ pc[p] = "list"
  /\ nextPage[p] # 0
  /\ HasNext(remote, nextPage[p])
  /\ \E e \in Errors : ~ClientGivesUp(p, e)
  /\ retried' = [retried EXCEPT ![p] = Append(@, nextPage[p])]
  /\ nextPage' = [nextPage EXCEPT ![p] = @ + 1]
  /\ UNCHANGED <<remote, pc, runs, inputs, commentBody, existingCommentId, error,
                 output, log, calls, outcome>>
ListPageRetry(p) ==
  /\ pc[p] = "list"
  /\ nextPage[p] # 0
  /\ \E e \in Errors : ~ClientGivesUp(p, e)
  /\ retried' = [retried EXCEPT ![p] = Append(@, nextPage[p])]
  /\ UNCHANGED <<remote, pc, runs, inputs, commentBody, nextPage, existingCommentId, error,
                 output, log, calls, outcome>>

\* lines 57-63: octo.rest.issues.updateComment succeeds
UpdateComment(p) ==
  /\ pc[p] = "write"
  /\ Truthy(existingCommentId[p])
  /\ calls' = [calls EXCEPT ![p] = Append(@, [op |-> "updateComment", comment_id |-> existingCommentId[p][1],
                                              body |-> commentBody[p], ok |-> TRUE])]
  /\ remote' = Updated(remote, existingCommentId[p][1], commentBody[p])
  /\ pc' = [pc EXCEPT ![p] = "done"]
  /\ outcome' = [outcome EXCEPT ![p] = "returned"]
  /\ UNCHANGED <<runs, inputs, retried, commentBody, nextPage, existingCommentId, error, output, log>>

\* lines 57-63: octo.rest.issues.updateComment is rejected
UpdateCommentFails(p) ==
  /\ pc[p] = "write"
  /\ Truthy(existingCommentId[p])
  /\ \E e \in Errors :
       /\ calls' = [calls EXCEPT ![p] = Append(@, [op |-> "updateComment", comment_id |-> existingCommentId[p][1],
                                                   body |-> commentBody[p], ok |-> FALSE])]
       /\ Throw(p, e, "write")
  /\ UNCHANGED <<remote, runs, inputs, retried, commentBody, nextPage, existingCommentId, output, log>>

\* lines 64-71: octo.rest.issues.createComment succeeds; the remote gives
\* the comment an id above those of the comments the pull request has
CreateComment(p) ==
  /\ pc[p] = "write"
  /\ ~Truthy(existingCommentId[p])
  /\ \E id \in 0..(MaxId + 1) :
       /\ \A j \in Ids(remote) : j < id
       /\ remote' = Created(remote, id, commentBody[p])
  /\ calls' = [calls EXCEPT ![p] = Append(@, [op |-> "createComment", body |-> commentBody[p], ok |-> TRUE])]
  /\ pc' = [pc EXCEPT ![p] = "done"]
  /\ outcome' = [outcome EXCEPT ![p] = "returned"]
  /\ UNCHANGED <<runs, inputs, retried, commentBody, nextPage, existingCommentId, error, output, log>>

\* lines 64-71: octo.rest.issues.createComment is rejected
CreateCommentFails(p) ==
  /\ pc[p] = "write"
  /\ ~Truthy(existingCommentId[p])
  /\ \E e \in Errors :
       /\ calls' = [calls EXCEPT ![p] = Append(@, [op |-> "createComment", body |-> commentBody[p], ok |-> FALSE])]
       /\ Throw(p, e, "write")
  /\ UNCHANGED <<remote, runs, inputs, retried, commentBody, nextPage, existingCommentId, output, log>>

\* lines 72-88: the catch block warns and commentPr returns
Catch(p) ==
  /\ pc[p] = "catch"
  /\ log' = [log EXCEPT ![p] = Append(@, Warning(CatchWarning(error[p][1])))]
  /\ pc' = [pc EXCEPT ![p] = "done"]
  /\ outcome' = [outcome EXCEPT ![p] = "returned"]
  /\ UNCHANGED <<remote, runs, inputs, retried, commentBody, nextPage, existingCommentId, error, output, calls>>

\* commentPr has returned and the job that called it ends: what the run held
\* is gone, the pull request's comments stay
Exit(p) ==
  /\ pc[p] = "done"
  /\ pc' = [pc EXCEPT ![p] = "idle"]
  /\ config' = [config EXCEPT ![p] = "never"]
  /\ exitCode' = [exitCode EXCEPT ![p] = 0]
  /\ pull_request' = [pull_request EXCEPT ![p] = FALSE]
  /\ commentContent' = [commentContent EXCEPT ![p] = <<>>]
  /\ minComment' = [minComment EXCEPT ![p] = <<>>]
  /\ commentBody' = [commentBody EXCEPT ![p] = <<>>]
  /\ nextPage' = [nextPage EXCEPT ![p] = 0]
  /\ existingCommentId' = [existingCommentId EXCEPT ![p] = None]
  /\ error' = [error EXCEPT ![p] = None]
  /\ output' = [output EXCEPT ![p] = <<>>]
  /\ log' = [log EXCEPT ![p] = <<>>]
  /\ calls' = [calls EXCEPT ![p] = <<>>]
  /\ before' = [before EXCEPT ![p] = remote]
  /\ retried' = [retried EXCEPT ![p] = <<>>]
  /\ UNCHANGED <<remote, runs, outcome>>

\* one process, its invocations one after the other
Next ==
  \/ Call(1)
  \/ SetOutput(1)
  \/ PolicyCheck(1)
  \/ ContextCheck(1)
  \/ ComposeBody(1)
  \/ ListPage(1)
  \/ ListPageFails(1)
  \/ UpdateComment(1)
  \/ UpdateCommentFails(1)
  \/ CreateComment(1)
  \/ CreateCommentFails(1)
  \/ Catch(1)
  \/ Exit(1)

Spec == Init /\ [][Next]_vars

\* one invocation, with the client's retries in view: a page request is
\* rejected for good only when the error is not retryable or the retries are
\* used up
NextRetry ==
  \/ (Call(1) /\ runs[1] = 0)
  \/ SetOutput(1)
  \/ PolicyCheck(1)
  \/ ContextCheck(1)
  \/ ComposeBody(1)
  \/ ListPage(1)
  \/ ListPageRetry(1)
  \/ (ListPageFails(1) /\ ClientGivesUp(1, error'[1][1]))
  \/ UpdateComment(1)
  \/ UpdateCommentFails(1)
  \/ CreateComment(1)
  \/ CreateCommentFails(1)
  \/ Catch(1)
  \/ Exit(1)

SpecRetry == Init /\ [][NextRetry]_vars

\* the steps of a running invocation: statements run one after the other and
\* every request to the remote returns or fails in the end
Progress ==
  \/ SetOutput(1)
  \/ PolicyCheck(1)
  \/ ContextCheck(1)
  \/ ComposeBody(1)
  \/ ListPage(1)
  \/ ListPageRetry(1)
  \/ (ListPageFails(1) /\ ClientGivesUp(1, error'[1][1]))
  \/ UpdateComment(1)
  \/ UpdateCommentFails(1)
  \/ CreateComment(1)
  \/ CreateCommentFails(1)
  \/ Catch(1)

SpecLive == Init /\ [][NextRetry]_vars /\ WF_vars(Progress)

\* the invocations start from a pull request with at most one marked comment
Init4 ==
  /\ Init
  /\ Cardinality({i \in 1..Len(remote) : BodyIncludes(remote[i], COMMENT_MARKER)}) <= 1

Spec4 == Init4 /\ [][Next]_vars

\* ------------------------------------------------- vocabulary of the claims
IsWrite(c)  == c.op \in {"updateComment", "createComment"}
IsList(c)   == c.op = "listComments"
IsFailed(c) == ~c.ok
IsWarning(l) == l.level = "warning"

Writes(p)   == SelectSeq(calls[p], IsWrite)
Lists(p)    == SelectSeq(calls[p], IsList)
Failed(p)   == SelectSeq(calls[p], IsFailed)
Warnings(p) == SelectSeq(log[p], IsWarning)

ListingFailed(p) == \E i \in 1..Len(calls[p]) : IsList(calls[p][i]) /\ IsFailed(calls[p][i])

Called(p) == runs[p] > 0
Ended(p)  == Called(p) /\ pc[p] = "done"

\* gating as the claims state it
PolicyPassed(p) ==
  config[p] = "always" \/ (config[p] = "on-failure" /\ exitCode[p] = 1)
GatingPassed(p) == PolicyPassed(p) /\ pull_request[p]

\* positions of the marker-tagged comments of a collection
Marked(coll) ==
  {i \in 1..Len(coll) : coll[i].body # None /\ Includes(coll[i].body[1], COMMENT_MARKER)}

\* pages a full listing of a collection takes
PagesOf(coll) == IF Len(coll) = 0 THEN 1 ELSE (Len(coll) + PerPage - 1) \div PerPage

\* ------------------------------------------------- two invocations in a row
\* a second invocation that starts after a first one wrote with success and
\* returned, with the same rendered body and fallback body, and passes gating
CallAgain ==
  /\ Call(2)
  /\ runs[2] = 0
  /\ Ended(1) /\ Len(Writes(1)) = 1 /\ Writes(1)[1].ok
  /\ commentContent'[2] = commentContent[1]
  /\ minComment'[2] = minComment[1]
  /\ PolicyAllows(config'[2], exitCode'[2])
  /\ pull_request'[2]

NextTwice ==
  \/ (Call(1) /\ runs[1] = 0)
  \/ SetOutput(1)
  \/ PolicyCheck(1)
  \/ ContextCheck(1)
  \/ ComposeBody(1)
  \/ ListPage(1)
  \/ ListPageFails(1)
  \/ UpdateComment(1)
  \/ UpdateCommentFails(1)
  \/ CreateComment(1)
  \/ CreateCommentFails(1)
  \/ Catch(1)
  \/ CallAgain
  \/ SetOutput(2)
  \/ PolicyCheck(2)
  \/ ContextCheck(2)
  \/ ComposeBody(2)
  \/ ListPage(2)
  \/ ListPageFails(2)
  \/ UpdateComment(2)
  \/ UpdateCommentFails(2)
  \/ CreateComment(2)
  \/ CreateCommentFails(2)
  \/ Catch(2)

SpecTwice == Init /\ [][NextTwice]_vars

\* ---------------------------------------------- two invocations at one time
\* an invocation that passes gating: the policy is "always" and the run is
\* one of a pull request
CallGated(p) ==
  /\ Call(p)
  /\ runs[p] = 0
  /\ config'[p] = "always"
  /\ exitCode'[p] = 0
  /\ pull_request'[p]

\* the pull request starts without a marker-tagged comment
InitConc ==
  /\ Init
  /\ Marked(remote) = {}

NextConc ==
  \/ CallGated(1)
  \/ SetOutput(1)
  \/ PolicyCheck(1)
  \/ ContextCheck(1)
  \/ ComposeBody(1)
  \/ ListPage(1)
  \/ ListPageFails(1)
  \/ UpdateComment(1)
  \/ UpdateCommentFails(1)
  \/ CreateComment(1)
  \/ CreateCommentFails(1)
  \/ Catch(1)
  \/ CallGated(2)
  \/ SetOutput(2)
  \/ PolicyCheck(2)
  \/ ContextCheck(2)
  \/ ComposeBody(2)
  \/ ListPage(2)
  \/ ListPageFails(2)
  \/ UpdateComment(2)
  \/ UpdateCommentFails(2)
  \/ CreateComment(2)
  \/ CreateCommentFails(2)
  \/ Catch(2)

SpecConc == InitConc /\ [][NextConc]_vars

\* ------------------------------------------------------------------ claims

\* C1 as stated: every invocation that passed gating issues exactly one write
\* call, whatever the outcome of the listing.
C1_OneWriteWhateverListing ==
  (Ended(1) /\ GatingPassed(1)) => Len(Writes(1)) = 1

\* C1, amended: an invocation that passed gating and whose listing completed
\* without error issues exactly one write call, one updateComment or one
\* createComment; when the listing fails it issues none; no invocation issues
\* more than one.
C1_OneWriteAfterListing ==
  /\ Len(Writes(1)) <= 1
  /\ (Ended(1) /\ GatingPassed(1) /\ ~ListingFailed(1)) => Len(Writes(1)) = 1
  /\ (Ended(1) /\ ListingFailed(1)) => Writes(1) = <<>>

C1_Witness ==
  /\ Ended(1) /\ GatingPassed(1)
  /\ Len(Lists(1)) = 2 /\ Failed(1) = <<>>
  /\ Len(Writes(1)) = 1 /\ Writes(1)[1].op = "createComment"

\* C2: an invocation issues a network call if and only if the policy asks for
\* a comment and the run is in a pull-request context; otherwise it issues
\* none and the pull request's comments are unchanged.
C2_CallsIffGated ==
  /\ calls[1] # <<>> => GatingPassed(1)
  /\ (Ended(1) /\ GatingPassed(1)) => calls[1] # <<>>
  /\ (Called(1) /\ ~GatingPassed(1)) => remote = before[1]

C2_Witness ==
  /\ Ended(1) /\ config[1] = "on-failure" /\ exitCode[1] = 1 /\ pull_request[1]
  /\ calls[1] # <<>> /\ remote # before[1]

\* C3 as stated: outside a pull-request context, for any policy and failure
\* flag, the invocation warns that it is skipping and makes no network call.
C3_AlwaysWarnsOutsidePr ==
  (Ended(1) /\ ~pull_request[1])
    => /\ Warnings(1) = <<Warning(WARN_NO_PR)>>
       /\ calls[1] = <<>>

\* C3, amended: outside a pull-request context no network call is made for
\* any policy and failure flag, and the skipping warning is emitted exactly
\* when the policy asks for a comment: the policy check comes first and exits
\* silently, the context check comes second and warns.
C3_WarnsOutsidePrIfPolicyPassed ==
  (Ended(1) /\ ~pull_request[1])
    => /\ calls[1] = <<>>
       /\ remote = before[1]
       /\ PolicyPassed(1) => Warnings(1) = <<Warning(WARN_NO_PR)>>
       /\ ~PolicyPassed(1) => log[1] = <<>>

C3_Witness ==
  /\ Ended(1) /\ ~pull_request[1] /\ config[1] = "on-failure" /\ exitCode[1] = 1
  /\ Warnings(1) = <<Warning(WARN_NO_PR)>> /\ calls[1] = <<>>

\* C4: from a pull request with at most one marker-tagged comment, serialized
\* invocations leave at most one marker-tagged comment, and after an
\* invocation whose write succeeded that comment's body is the invocation's
\* commentBody.
C4_AtMostOneMarked ==
  /\ Cardinality(Marked(remote)) <= 1
  /\ (Ended(1) /\ Writes(1) # <<>> /\ Failed(1) = <<>>)
       => \E i \in 1..Len(remote) : Marked(remote) = {i} /\ remote[i].body = Some(commentBody[1])

\* C5: commentPr never raises: whatever the listing or the write throws, the
\* invocation returns normally and the failure ends in exactly one warning.
C5_NeverRaises ==
  /\ outcome[1] # "raised"
  /\ Ended(1) => outcome[1] = "returned"
  /\ Len(Failed(1)) <= 1
  /\ (Ended(1) /\ Failed(1) # <<>>) => Len(Warnings(1)) = 1
  /\ (Ended(1) /\ Failed(1) = <<>> /\ pull_request[1]) => Warnings(1) = <<>>

C5_Witness ==
  /\ Ended(1) /\ outcome[1] = "returned"
  /\ Failed(1) # <<>> /\ IsList(Failed(1)[1]) /\ Failed(1)[1].page = 2
  /\ error[1] # None /\ error[1][1].kind = "thrown"
  /\ Len(Warnings(1)) = 1

\* C6: the warning after a failure is chosen by the shape of what was thrown:
\* a RequestError with status 403 gives the warning naming the permission
\* 'pull-requests: write'; any other Error gives a warning that contains its
\* message; a value that is no Error gives the 'Unexpected fatal error' one.
C6_WarningByShape ==
  (Ended(1) /\ error[1] # None) =>
    LET e == error[1][1]
        w == Warnings(1)[1].text
    IN  /\ Len(Warnings(1)) = 1
        /\ (e.kind = "RequestError" /\ e.status = 403) => w = WARN_FORBIDDEN
        /\ (e.kind \in {"RequestError", "Error"} /\ ~(e.kind = "RequestError" /\ e.status = 403))
             => /\ \E i \in 1..Len(w) : w[i] = e.message
                /\ w \notin {WARN_FORBIDDEN, WARN_FATAL}
        /\ e.kind \notin {"RequestError", "Error"} => w = WARN_FATAL

C6_Witness ==
  /\ Ended(1) /\ error[1] # None
  /\ error[1][1].kind = "Error" /\ error[1][1].status = 403
  /\ Writes(1) # <<>> /\ IsFailed(Writes(1)[1])
  /\ Warnings(1) = <<Warning(<<"Unable to comment summary to pull-request, received error: ", "socket hang up">>)>>

\* C7: the body of the write call is the rendered body, separator and marker
\* when that text is shorter than MAX_COMMENT_LENGTH, and the minimum comment,
\* separator and marker when it is MAX_COMMENT_LENGTH long or longer.
C7_BodyByLength ==
  \A i \in 1..Len(Writes(1)) :
    LET full == commentContent[1] \o <<Word("\n\n", 2)>> \o COMMENT_MARKER
        mini == minComment[1] \o <<Word("\n\n", 2)>> \o COMMENT_MARKER
    IN  /\ StrLen(full) < 65536 => Writes(1)[i].body = full
        /\ StrLen(full) >= 65536 => Writes(1)[i].body = mini

C7_Witness ==
  /\ Writes(1) # <<>>
  /\ StrLen(commentContent[1]) + 2 + StrLen(COMMENT_MARKER) = 65536
  /\ Writes(1)[1].body = minComment[1] \o <<Word("\n\n", 2)>> \o COMMENT_MARKER
  /\ Writes(1)[1].body # commentContent[1] \o <<Word("\n\n", 2)>> \o COMMENT_MARKER

\* C8 as stated: when the minimum comment alone is shorter than
\* MAX_COMMENT_LENGTH, the body of every write call is shorter than
\* MAX_COMMENT_LENGTH.
C8_UnderCeilingIfMinUnder ==
  StrLen(minComment[1]) < 65536
    => \A i \in 1..Len(Writes(1)) : StrLen(Writes(1)[i].body) < 65536

\* C8, amended: when the minimum comment with separator and marker (46
\* characters more) is shorter than MAX_COMMENT_LENGTH, the body of every
\* write call is shorter than MAX_COMMENT_LENGTH, for every rendered body.
C8_UnderCeilingIfMinFits ==
  StrLen(minComment[1]) + 46 < 65536
    => \A i \in 1..Len(Writes(1)) : StrLen(Writes(1)[i].body) < 65536

C8_Witness ==
  /\ Writes(1) # <<>>
  /\ StrLen(commentContent[1]) + 46 >= 65536
  /\ StrLen(minComment[1]) + 46 < 65536
  /\ StrLen(Writes(1)[1].body) = StrLen(minComment[1]) + 46

\* C9: when the listing succeeds and some comment's body contains the marker,
\* the invocation calls updateComment with the id of such a comment, whatever
\* that id is, and not createComment; when no body contains the marker it
\* calls createComment and not updateComment.
C9_UpdateIffMarked ==
  (Ended(1) /\ Writes(1) # <<>>) =>
    /\ Marked(before[1]) # {}
         => /\ Writes(1)[1].op = "updateComment"
            /\ \E i \in Marked(before[1]) : Writes(1)[1].comment_id = before[1][i].id
    /\ Marked(before[1]) = {} => Writes(1)[1].op = "createComment"

\* C10: findCommentByMarker returns the id of the first comment, in page
\* order and order within the page, whose body is present and contains the
\* marker; with no such comment it returns undefined after fetching every
\* page.
C10_FirstMarkedId ==
  (pc[1] = "write") =>
    /\ Marked(remote) # {} => existingCommentId[1] = Some(remote[Min(Marked(remote))].id)
    /\ Marked(remote) = {}
         => /\ existingCommentId[1] = None
            /\ Len(Lists(1)) = PagesOf(remote)

C10_Witness ==
  /\ pc[1] = "write"
  /\ Len(remote) = 3 /\ Marked(remote) = {3}
  /\ remote[1].body = None /\ remote[2].body # None
  /\ existingCommentId[1] = Some(remote[3].id)
  /\ Len(Lists(1)) = 2

\* C11: the listing stops at the first page that holds a marked comment:
\* pages are requested one at a time, in order from page 1, and page k+1 is
\* requested only when pages 1..k were fetched and hold no marked comment.
C11_ShortCircuit ==
  \A i \in 1..Len(Lists(1)) :
    /\ Lists(1)[i].page = i
    /\ \A j \in 1..(i - 1) :
         /\ Lists(1)[j].ok
         /\ \A m \in Marked(before[1]) : m > j * PerPage

C11_Witness ==
  /\ Ended(1)
  /\ Len(before[1]) = 3 /\ Marked(before[1]) = {2, 3}
  /\ Len(Lists(1)) = 1 /\ Lists(1)[1].ok
  /\ Len(Writes(1)) = 1

\* C14 as stated: 'comment-content' is set once in an invocation that passed
\* gating and is not set in an invocation that the policy or the context
\* check skips.
C14_OutputOnlyAfterGating ==
  /\ output[1] # <<>> => GatingPassed(1)
  /\ (Ended(1) /\ GatingPassed(1)) => Len(output[1]) = 1

\* C14, amended: 'comment-content' is set exactly once per invocation, before
\* the policy and the context checks, whether or not gating passes.
C14_OutputOncePerInvocation ==
  /\ pc[1] \in {"idle", "setOutput"} => output[1] = <<>>
  /\ pc[1] \notin {"idle", "setOutput"} => Len(output[1]) = 1

C14_Witness ==
  /\ Ended(1) /\ config[1] = "never" /\ ~pull_request[1]
  /\ Len(output[1]) = 1 /\ calls[1] = <<>>

\* C15: the value exported as 'comment-content' is the rendered body, without
\* the marker, also when the body submitted is the minimum comment, and it
\* has been exported whether the listing and the write succeed or fail.
C15_OutputIsRendered ==
  /\ \A i \in 1..Len(output[1]) :
       /\ output[1][i] = commentContent[1]
       /\ ~Includes(output[1][i], COMMENT_MARKER)
  /\ calls[1] # <<>> => output[1] = <<commentContent[1]>>

C15_Witness ==
  /\ Ended(1) /\ Writes(1) # <<>> /\ IsFailed(Writes(1)[1])
  /\ Writes(1)[1].body = minComment[1] \o <<Word("\n\n", 2)>> \o COMMENT_MARKER
  /\ minComment[1] # commentContent[1]
  /\ output[1] = <<commentContent[1]>>

\* C16: when the listing fails, on any page and after the client's retries,
\* neither updateComment nor createComment is called, exactly one warning is
\* emitted and the pull request's comments are unchanged.
C16_ListingFailureCaught ==
  (Ended(1) /\ ListingFailed(1)) =>
    /\ Writes(1) = <<>>
    /\ Len(Warnings(1)) = 1
    /\ outcome[1] = "returned"
    /\ remote = before[1]
    /\ error[1] # None
    /\ (error[1][1].kind = "RequestError" /\ error[1][1].status >= 500)
         => Len(retried[1]) >= MaxRetries

C16_Witness ==
  /\ Ended(1) /\ ListingFailed(1)
  /\ calls[1][Len(calls[1])].page = 2
  /\ retried[1] # <<>> /\ retried[1][Len(retried[1])] = 2
  /\ error[1] # None /\ error[1][1].status = 500
  /\ Len(Warnings(1)) = 1 /\ Writes(1) = <<>>

\* C17: an invocation changes at most one comment: it replaces the body of
\* the first marked comment in listing order or appends one comment; every
\* other comment keeps its id and body and no comment is deleted.
C17_AtMostOneCommentChanged ==
  Called(1) =>
    \/ remote = before[1]
    \/ /\ GatingPassed(1)
       /\ Marked(before[1]) # {}
       /\ remote = [before[1] EXCEPT ![Min(Marked(before[1]))].body = Some(commentBody[1])]
    \/ /\ GatingPassed(1)
       /\ Len(remote) = Len(before[1]) + 1
       /\ SubSeq(remote, 1, Len(before[1])) = before[1]
       /\ remote[Len(remote)].body = Some(commentBody[1])
       /\ remote[Len(remote)].id \notin Ids(before[1])

C17_Witness ==
  /\ Ended(1)
  /\ Len(before[1]) = 3 /\ Marked(before[1]) = {2, 3}
  /\ Len(remote) = 3 /\ remote # before[1]
  /\ remote[1] = before[1][1] /\ remote[3] = before[1][3]
  /\ remote[2].id = before[1][2].id /\ remote[2].body = Some(commentBody[1])

\* C18: the body is fixed before the first request and does not depend on
\* the listing, and the write is the last request, sent only after the
\* listing finished by a match or by the last page.
C18_ComposeListWrite ==
  LET fixed == IF StrLen(commentContent[1]) + 2 + StrLen(COMMENT_MARKER) >= 65536
                 THEN minComment[1] \o <<Word("\n\n", 2)>> \o COMMENT_MARKER
                 ELSE commentContent[1] \o <<Word("\n\n", 2)>> \o COMMENT_MARKER
  IN  /\ (pc[1] = "list" \/ calls[1] # <<>>) => commentBody[1] = fixed
      /\ pc[1] \in {"setOutput", "policy", "context", "compose"} => calls[1] = <<>>
      /\ \A i \in 1..Len(calls[1]) :
           IsWrite(calls[1][i]) =>
             /\ i = Len(calls[1]) /\ i > 1
             /\ calls[1][i].body = fixed
             /\ \A j \in 1..(i - 1) : IsList(calls[1][j]) /\ calls[1][j].ok
             /\ \/ \E m \in Marked(before[1]) : m <= (i - 1) * PerPage
                \/ (i - 1) * PerPage >= Len(before[1])

C18_Witness ==
  /\ Ended(1) /\ Len(calls[1]) = 3
  /\ IsWrite(calls[1][3]) /\ calls[1][3].op = "createComment"
  /\ calls[1][3].body = minComment[1] \o <<Word("\n\n", 2)>> \o COMMENT_MARKER
  /\ minComment[1] # commentContent[1]

\* C12: two invocations that run at the same time on a pull request without
\* a marker-tagged comment can both finish their listing before either
\* writes; both then take the create path and the pull request ends with two
\* marker-tagged comments.
C12_BothCreate ==
  /\ (pc[1] = "write" /\ pc[2] = "write" /\ Marked(remote) = {})
       => ~Truthy(existingCommentId[1]) /\ ~Truthy(existingCommentId[2])
  /\ (/\ Ended(1) /\ Ended(2)
      /\ \A p \in Procs : /\ Len(Writes(p)) = 1
                          /\ Writes(p)[1].op = "createComment"
                          /\ Writes(p)[1].ok)
       => Cardinality(Marked(remote)) = 2

C12_Witness ==
  /\ Ended(1) /\ Ended(2)
  /\ \A p \in Procs : /\ Marked(before[p]) = {}
                      /\ Len(Lists(p)) = PagesOf(before[p])
                      /\ Failed(p) = <<>>
                      /\ Len(Writes(p)) = 1
                      /\ Writes(p)[1].op = "createComment"
  /\ Cardinality(Marked(remote)) = 2
  /\ \A i \in Marked(remote) : remote[i].id # 0

\* the id of the comment the first invocation wrote, seen when the second starts
WrittenByFirst ==
  IF Writes(1)[1].op = "updateComment" THEN Writes(1)[1].comment_id
  ELSE before[2][Len(before[2])].id

\* C13: after a first invocation wrote with success, a second one in a row
\* with the same rendered body and fallback body, when it writes with success,
\* updates the comment the first one wrote and leaves the pull request's
\* comments as they were.
C13_SecondRunUpdatesSame ==
  (Ended(2) /\ Len(Writes(2)) = 1 /\ Writes(2)[1].ok) =>
    /\ Writes(2)[1].op = "updateComment"
    /\ Writes(2)[1].comment_id = WrittenByFirst
    /\ remote = before[2]

\* C19: every invocation terminates: once called, it reaches its end, after
\* its write, after a gating skip or after a failure it handled, and does
\* not stay in the pagination loop.
C19_Terminates == (pc[1] \notin {"idle", "done"}) ~> (pc[1] = "done")

C19_Witness ==
  /\ Ended(1) /\ outcome[1] = "returned"
  /\ Len(Lists(1)) = 2 /\ retried[1] # <<>>
  /\ Len(Writes(1)) = 1

\* C20: a page request rejected with a server error and sent again with
\* success leaves no trace in the invocation: findCommentByMarker returns
\* what it returns without the rejection, no warning is emitted and the
\* invocation goes on to its one write.
C20_RetryIsTransparent ==
  /\ (retried[1] # <<>> /\ pc[1] \in {"list", "write"})
       => /\ Warnings(1) = <<>>
          /\ error[1] = None
          /\ \A i \in 1..Len(calls[1]) : calls[1][i].ok /\ calls[1][i].page = i
  /\ (retried[1] # <<>> /\ pc[1] = "write")
       => /\ Marked(remote) # {} => existingCommentId[1] = Some(remote[Min(Marked(remote))].id)
          /\ Marked(remote) = {} => existingCommentId[1] = None
  /\ (retried[1] # <<>> /\ Ended(1) /\ ~ListingFailed(1))
       => /\ Len(Writes(1)) = 1
          /\ Writes(1)[1].ok => Warnings(1) = <<>>

C20_Witness ==
  /\ Ended(1) /\ retried[1] = <<2>>
  /\ Len(Lists(1)) = 2 /\ Failed(1) = <<>>
  /\ Len(Writes(1)) = 1 /\ Writes(1)[1].op = "updateComment"
  /\ Warnings(1) = <<>>

====
